---- MODULE Spec2Model ----
(***************************************************************************)
(* Model of the snippets repository: uniparams.py (URL normalisation and   *)
(* deduplication), scope_check.py (scope classification) and burpJS.py     *)
(* (scan log parser).                                                      *)
(*                                                                         *)
(* A string is a sequence of tokens.  A token is either one delimiter      *)
(* character or a run of characters that holds no delimiter, so that every *)
(* find / split / startswith / endswith of the code is the same operation  *)
(* on the token sequence.  urllib.parse is modelled as CPython 3.11 does   *)
(* it.                                                                     *)
(***************************************************************************)
EXTENDS Integers, Sequences, FiniteSets, TLC

VARIABLES
    \* uniparams.deduplicate_urls
    pc, infile, unique_keys, total_urls, duplicate_urls, stderr, result, outfile,
    \* scope_check.process_urls
    spc, allow_wildcards, out_of_scope_list, scope_domains, url_file,
    in_scope_urls, out_of_scope_urls,
    \* burpJS.parse_input_file
    bpc, input_file, results, current_base_url

dedupVars == <<pc, infile, unique_keys, total_urls, duplicate_urls, stderr, result, outfile>>

scopeVars == <<spc, allow_wildcards, out_of_scope_list, scope_domains, url_file,
               in_scope_urls, out_of_scope_urls>>

burpVars == <<bpc, input_file, results, current_base_url>>

vars == <<dedupVars, scopeVars, burpVars>>

----------------------------------------------------------------------------
(* Bounds *)

MaxLines == 3

MaxUrls == 3

MaxLog == 4

----------------------------------------------------------------------------
(* Sequence helpers: str.find, str.rfind, slicing, str.split, str.join *)

Min(S) == CHOOSE x \in S : \A y \in S : x <= y

Max(S) == CHOOSE x \in S : \A y \in S : x >= y

\* s.find(one of T, from): the 1-based index of the first token in T, 0 if none
Find(s, T, from) ==
    LET I == {i \in from..Len(s) : s[i] \in T}
    IN IF I = {} THEN 0 ELSE Min(I)

\* s.rfind(t): the 1-based index of the last token t, 0 if none
RFind(s, t) ==
    LET I == {i \in 1..Len(s) : s[i] = t}
    IN IF I = {} THEN 0 ELSE Max(I)

From(s, i) == SubSeq(s, i, Len(s))

Upto(s, i) == SubSeq(s, 1, i)

StartsWith(s, p) == Len(s) >= Len(p) /\ Upto(s, Len(p)) = p

EndsWith(s, p) == Len(s) >= Len(p) /\ From(s, Len(s) - Len(p) + 1) = p

\* s.split(d): the pieces between the tokens d (always at least one piece)
RECURSIVE Split(_, _)
Split(s, d) ==
    LET i == Find(s, {d}, 1)
    IN IF i = 0 THEN <<s>>
       ELSE <<Upto(s, i - 1)>> \o Split(From(s, i + 1), d)

\* d.join(pieces)
RECURSIVE Join(_, _)
Join(pieces, d) ==
    IF pieces = <<>> THEN <<>>
    ELSE IF Len(pieces) = 1 THEN pieces[1]
    ELSE pieces[1] \o <<d>> \o Join(Tail(pieces), d)

Range(s) == {s[i] : i \in 1..Len(s)}

----------------------------------------------------------------------------
(* uniparams.py : character classes and per-token string functions *)

\* tokens that start with an ASCII letter and hold only scheme_chars
AlphaTok == {"http", "HTTP", "a.com", "A.com", "a", "A", "b", "z", "x", "y", "p", "f", "FUZZ"}

\* tokens that hold only scheme_chars (letters, digits, + - .)
SchemeTok == AlphaTok \cup {"1", "2", "9", "+"}

Whitespace == {" "}

\* str.lower() of one token
LowerTok(t) ==
    CASE t = "HTTP" -> "http"
      [] t = "A.com" -> "a.com"
      [] t = "A" -> "a"
      [] t = "HTTPS" -> "https"
      [] t = "Example" -> "example"
      [] OTHER -> t

lower(s) == [i \in 1..Len(s) |-> LowerTok(s[i])]

\* str.strip(): leading and trailing whitespace removed
RECURSIVE lstrip(_)
lstrip(s) == IF s # <<>> /\ Head(s) \in Whitespace THEN lstrip(Tail(s)) ELSE s

RECURSIVE rstrip(_)
rstrip(s) ==
    IF s # <<>> /\ s[Len(s)] \in Whitespace THEN rstrip(Upto(s, Len(s) - 1)) ELSE s

strip(s) == rstrip(lstrip(s))

\* name.replace('+', ' ') followed by unquote(name), one token at a time
UnquoteTok(t) ==
    CASE t = "+" -> " "
      [] t = "%20" -> " "
      [] t = "%2B" -> "+"
      [] t = "%2F" -> "/"
      [] t = "%3A" -> ":"
      [] t = "%3B" -> ";"
      [] t = "%3F" -> "?"
      [] t = "%5B" -> "["
      [] OTHER -> t

unquote_plus(s) == [i \in 1..Len(s) |-> UnquoteTok(s[i])]

\* quote_plus(name), one token at a time
QuoteTok(t) ==
    CASE t = " " -> "+"
      [] t = "+" -> "%2B"
      [] t = "/" -> "%2F"
      [] t = ":" -> "%3A"
      [] t = ";" -> "%3B"
      [] t = "?" -> "%3F"
      [] t = "[" -> "%5B"
      [] OTHER -> t

quote_plus(s) == [i \in 1..Len(s) |-> QuoteTok(s[i])]

\* the code points of a token, for Python's string comparison
CodePoints(t) ==
    CASE t = " " -> <<32>>
      [] t = "+" -> <<43>>
      [] t = "/" -> <<47>>
      [] t = "1" -> <<49>>
      [] t = "2" -> <<50>>
      [] t = "9" -> <<57>>
      [] t = ":" -> <<58>>
      [] t = ";" -> <<59>>
      [] t = "?" -> <<63>>
      [] t = "A" -> <<65>>
      [] t = "FUZZ" -> <<70, 85, 90, 90>>
      [] t = "[" -> <<91>>
      [] t = "a" -> <<97>>
      [] t = "b" -> <<98>>
      [] t = "f" -> <<102>>
      [] t = "p" -> <<112>>
      [] t = "x" -> <<120>>
      [] t = "y" -> <<121>>
      [] t = "z" -> <<122>>
      [] t = "http" -> <<104, 116, 116, 112>>
      [] t = "HTTP" -> <<72, 84, 84, 80>>
      [] t = "a.com" -> <<97, 46, 99, 111, 109>>
      [] t = "A.com" -> <<65, 46, 99, 111, 109>>

RECURSIVE Flat(_)
Flat(s) == IF s = <<>> THEN <<>> ELSE CodePoints(Head(s)) \o Flat(Tail(s))

RECURSIVE LexLess(_, _)
LexLess(a, b) ==
    IF b = <<>> THEN FALSE
    ELSE IF a = <<>> THEN TRUE
    ELSE IF Head(a) # Head(b) THEN Head(a) < Head(b)
    ELSE LexLess(Tail(a), Tail(b))

\* Python's str < str
StrLess(a, b) == LexLess(Flat(a), Flat(b))

----------------------------------------------------------------------------
(* urllib.parse as uniparams.normalize_url uses it *)

uses_netloc == {<<"http">>}

uses_params == {<<>>, <<"http">>}

ValueError == [error |-> TRUE]

\* _splitparams(url): the params follow the first ";" of the last path segment
splitparams_at(url, i) ==
    IF i = 0 THEN [path |-> url, params |-> <<>>]
    ELSE [path |-> Upto(url, i - 1), params |-> From(url, i + 1)]

splitparams(url) ==
    splitparams_at(url, IF RFind(url, "/") > 0
                        THEN Find(url, {";"}, RFind(url, "/"))
                        ELSE Find(url, {";"}, 1))

\* urlsplit, last step: if '?' in url: url, query = url.split('?', 1)
urlsplit_query(scheme, netloc, url, fragment, qm) ==
    [error |-> FALSE, scheme |-> scheme, netloc |-> netloc,
     path |-> IF qm = 0 THEN url ELSE Upto(url, qm - 1),
     query |-> IF qm = 0 THEN <<>> ELSE From(url, qm + 1),
     fragment |-> fragment]

\* urlsplit: if '#' in url: url, fragment = url.split('#', 1)
urlsplit_fragment(scheme, netloc, url, hash) ==
    IF hash = 0
    THEN urlsplit_query(scheme, netloc, url, <<>>, Find(url, {"?"}, 1))
    ELSE urlsplit_query(scheme, netloc, Upto(url, hash - 1), From(url, hash + 1),
                        Find(Upto(url, hash - 1), {"?"}, 1))

\* urlsplit: a netloc with one bracket only raises ValueError("Invalid IPv6 URL")
urlsplit_checked(scheme, netloc, url) ==
    IF ("[" \in Range(netloc)) # ("]" \in Range(netloc))
    THEN ValueError
    ELSE urlsplit_fragment(scheme, netloc, url, Find(url, {"#"}, 1))

\* urlsplit: if url[:2] == '//': netloc, url = _splitnetloc(url, 2)
urlsplit_netloc(scheme, url, delim) ==
    IF ~StartsWith(url, <<"/", "/">>) THEN urlsplit_checked(scheme, <<>>, url)
    ELSE IF delim = 0 THEN urlsplit_checked(scheme, From(url, 3), <<>>)
    ELSE urlsplit_checked(scheme, SubSeq(url, 3, delim - 1), From(url, delim))

\* urlsplit: a scheme is split off when all that precedes the first ':' are
\* scheme_chars and the first character is a letter
urlsplit_scheme(url, i) ==
    IF /\ i > 1
       /\ url[1] \in AlphaTok
       /\ \A j \in 1..(i - 1) : url[j] \in SchemeTok
    THEN urlsplit_netloc(lower(Upto(url, i - 1)), From(url, i + 1),
                         Find(From(url, i + 1), {"/", "?", "#"}, 3))
    ELSE urlsplit_netloc(<<>>, url, Find(url, {"/", "?", "#"}, 3))

\* urlsplit(url): scheme, netloc, fragment and query split off in this order
urlsplit(url) == urlsplit_scheme(lstrip(url), Find(lstrip(url), {":"}, 1))

\* urlparse, last step: the ParseResult
urlparse_result(s, sp) ==
    [error |-> FALSE, scheme |-> s.scheme, netloc |-> s.netloc,
     path |-> sp.path, params |-> sp.params, query |-> s.query,
     fragment |-> s.fragment]

urlparse_split(s) ==
    IF s.error THEN ValueError
    ELSE IF s.scheme \in uses_params /\ ";" \in Range(s.path)
    THEN urlparse_result(s, splitparams(s.path))
    ELSE urlparse_result(s, [path |-> s.path, params |-> <<>>])

\* urlparse(url): urlsplit, then the params of the last path segment
urlparse(url) == urlparse_split(urlsplit(url))

\* urlunsplit((scheme, netloc, url, query, fragment))
urlunsplit(scheme, netloc, url, query, fragment) ==
    LET u1 == IF netloc # <<>>
                 \/ (scheme # <<>> /\ scheme \in uses_netloc
                     /\ ~StartsWith(url, <<"/", "/">>))
              THEN <<"/", "/">> \o netloc
                   \o (IF url # <<>> /\ Head(url) # "/" THEN <<"/">> \o url ELSE url)
              ELSE url
        u2 == IF scheme # <<>> THEN scheme \o <<":">> \o u1 ELSE u1
        u3 == IF query # <<>> THEN u2 \o <<"?">> \o query ELSE u2
    IN IF fragment # <<>> THEN u3 \o <<"#">> \o fragment ELSE u3

\* urlunparse((scheme, netloc, url, params, query, fragment))
urlunparse(scheme, netloc, url, params, query, fragment) ==
    urlunsplit(scheme, netloc,
               IF params # <<>> THEN url \o <<";">> \o params ELSE url,
               query, fragment)

\* parse_qsl(qs, keep_blank_values=True): the (name, value) pairs in order
RECURSIVE qsl_pairs(_)
qsl_pairs(pieces) ==
    IF pieces = <<>> THEN <<>>
    ELSE LET nv == Head(pieces)
             eq == Find(nv, {"="}, 1)
             name == IF eq = 0 THEN nv ELSE Upto(nv, eq - 1)
             value == IF eq = 0 THEN <<>> ELSE From(nv, eq + 1)
         IN (IF nv = <<>> THEN <<>>
             ELSE <<[name |-> unquote_plus(name), value |-> unquote_plus(value)]>>)
            \o qsl_pairs(Tail(pieces))

parse_qsl(qs) == IF qs = <<>> THEN <<>> ELSE qsl_pairs(Split(qs, "&"))

\* parse_qs: a dict name -> list of values, in first insertion order
RECURSIVE qs_dict(_, _)
qs_dict(pairs, d) ==
    IF pairs = <<>> THEN d
    ELSE LET p == Head(pairs)
             I == {i \in 1..Len(d) : d[i].name = p.name}
         IN qs_dict(Tail(pairs),
                    IF I = {} THEN Append(d, [name |-> p.name, values |-> <<p.value>>])
                    ELSE [d EXCEPT ![Min(I)].values = Append(@, p.value)])

parse_qs(qs) == qs_dict(parse_qsl(qs), <<>>)

\* a mutant of sorted: the items left in dict order
unsorted(items) == items

\* sorted(query_params.items()): ascending by name (names are unique)
RECURSIVE sorted(_)
sorted(items) ==
    IF items = <<>> THEN <<>>
    ELSE LET m == CHOOSE i \in 1..Len(items) :
                      \A j \in 1..Len(items) : ~StrLess(items[j].name, items[i].name)
         IN <<items[m]>>
            \o sorted([k \in 1..(Len(items) - 1) |->
                          IF k < m THEN items[k] ELSE items[k + 1]])

\* [(param, ['FUZZ']) for param, values in sorted_params]
normalized_params(sorted_params) ==
    [i \in 1..Len(sorted_params) |->
        [name |-> sorted_params[i].name, values |-> <<<<"FUZZ">>>>]]

\* urlencode(params, doseq=True)
RECURSIVE encode_values(_, _)
encode_values(name, values) ==
    IF values = <<>> THEN <<>>
    ELSE <<quote_plus(name) \o <<"=">> \o quote_plus(Head(values))>>
         \o encode_values(name, Tail(values))

RECURSIVE encode_items(_)
encode_items(params) ==
    IF params = <<>> THEN <<>>
    ELSE encode_values(Head(params).name, Head(params).values)
         \o encode_items(Tail(params))

urlencode(params) == Join(encode_items(params), "&")

----------------------------------------------------------------------------
(* uniparams.normalize_url *)

None == [ok |-> FALSE, key |-> <<>>, url |-> <<>>]

\* lines 32-52: the dedup key and the output URL
normalize_url_result(parsed, normalized_query) ==
    [ok |-> TRUE,
     key |-> urlunparse(lower(parsed.scheme), lower(parsed.netloc),
                        <<>>, <<>>, normalized_query, <<>>),
     url |-> urlunparse(parsed.scheme, parsed.netloc, parsed.path,
                        <<>>, normalized_query, <<>>)]

\* lines 21-30, and the except branch of line 54
normalize_url_parsed(parsed) ==
    IF parsed.error THEN None
    ELSE normalize_url_result(
             parsed, urlencode(normalized_params(sorted(parse_qs(parsed.query)))))

normalize_url(url) == normalize_url_parsed(urlparse(url))

----------------------------------------------------------------------------
(* uniparams.deduplicate_urls *)

\* the lines an input file may hold
UrlLine1 == <<"http", ":", "/", "/", "a.com", "/", "x", "?", "z", "=", "1", "&", "a", "=", "2">>
UrlLine2 == <<"http", ":", "/", "/", "a.com", "/", "y", "?", "a", "=", "9", "&", "z", "=", "9">>
UrlLine3 == <<"HTTP", ":", "/", "/", "A.com", "/", "x", "?", "a", "=", "1", "&", "a", "=", "2", "#", "f">>
UrlLine4 == <<"http", ":", "/", "/", "a.com", "/", "x">>
UrlLine5 == <<"a.com", "/", "x">>
UrlLine6 == <<"http", ":", "/", "/", "[", "a.com", "/", "x">>
UrlLine7 == <<"http", ":", "/", "/", "/", "/", "x", "?", "a", "=", "1">>
UrlLine8 == <<" ">>
UrlLine9 == <<" ", "http", ":", "/", "/", "a.com", "/", "y", ";", "p", "?", "a", "%20", "b", "=", "1", "&", "a", "+", "b", "&", "A", " ">>

InputLines ==
    {UrlLine1, UrlLine2, UrlLine3, UrlLine4, UrlLine5, UrlLine6, UrlLine7, UrlLine8,
     UrlLine9}

Init ==
    /\ pc = "loop"
    /\ infile = <<>>
    /\ unique_keys = <<>>
    /\ total_urls = 0
    /\ duplicate_urls = 0
    /\ stderr = <<>>
    /\ result = None
    /\ outfile = <<>>
    /\ spc = "prompt"
    /\ allow_wildcards = FALSE
    /\ out_of_scope_list = <<>>
    /\ scope_domains = <<>>
    /\ url_file = <<>>
    /\ in_scope_urls = <<>>
    /\ out_of_scope_urls = <<>>
    /\ bpc = "loop"
    /\ input_file = <<>>
    /\ results = <<>>
    /\ current_base_url = <<>>

HasKey(d, key) == \E i \in 1..Len(d) : d[i].key = key

\* a mutant of unique_keys_set: the new entry is put in front
unique_keys_set_front(d, key, url) ==
    IF HasKey(d, key) THEN d ELSE <<[key |-> key, url |-> url]>> \o d

\* if dedup_key not in unique_keys: unique_keys[dedup_key] = normalized_url
unique_keys_set(d, key, url) ==
    IF HasKey(d, key) THEN d ELSE Append(d, [key |-> key, url |-> url])

\* lines 74-78: the result of normalize_url is recorded
deduplicate_urls_record(url, r) ==
    /\ result' = r
    /\ stderr' = IF r.ok THEN stderr ELSE Append(stderr, url)
    /\ IF r.key # <<>> /\ r.url # <<>>
       THEN /\ unique_keys' = unique_keys_set(unique_keys, r.key, r.url)
            /\ duplicate_urls' = IF HasKey(unique_keys, r.key)
                                 THEN duplicate_urls + 1
                                 ELSE duplicate_urls
       ELSE UNCHANGED <<unique_keys, duplicate_urls>>

\* lines 68-73: blank lines are skipped, the others counted and normalized
deduplicate_urls_body(url) ==
    IF url = <<>>
    THEN UNCHANGED <<unique_keys, total_urls, duplicate_urls, stderr, result>>
    ELSE /\ total_urls' = total_urls + 1
         /\ deduplicate_urls_record(url, normalize_url(url))

\* one iteration of "for line in infile"
deduplicate_urls_line(line) ==
    /\ pc = "loop"
    /\ Len(infile) < MaxLines
    /\ infile' = Append(infile, line)
    /\ deduplicate_urls_body(strip(line))
    /\ UNCHANGED <<pc, outfile, scopeVars, burpVars>>

\* end of input: the values of unique_keys are written in dict order
deduplicate_urls_write ==
    /\ pc = "loop"
    /\ pc' = "done"
    /\ outfile' = [i \in 1..Len(unique_keys) |-> unique_keys[i].url]
    /\ UNCHANGED <<infile, unique_keys, total_urls, duplicate_urls, stderr, result>>
    /\ UNCHANGED <<scopeVars, burpVars>>

NextDedup ==
    \/ \E line \in InputLines : deduplicate_urls_line(line)
    \/ deduplicate_urls_write

SpecDedup == Init /\ [][NextDedup]_vars

----------------------------------------------------------------------------
(* Properties of uniparams.py *)

\* the indices of the non-blank lines read so far
NonBlankLines == {i \in 1..Len(infile) : strip(infile[i]) # <<>>}

\* the indices of the lines normalize_url returned a result for
NormalizedLines == {i \in NonBlankLines : normalize_url(strip(infile[i])).ok}

UrlOfLine(i) == normalize_url(strip(infile[i])).url

KeyOfLine(i) == normalize_url(strip(infile[i])).key

\* the dedup key as the triple (scheme lowercased, host lowercased, parameter names)
DedupTriple(url) ==
    LET parsed == urlparse(url)
        pairs == parse_qsl(parsed.query)
    IN <<lower(parsed.scheme), lower(parsed.netloc),
         {pairs[i].name : i \in 1..Len(pairs)}>>

TripleOfLine(i) == DedupTriple(strip(infile[i]))

LinesWithTriple(K) == {j \in NormalizedLines : TripleOfLine(j) = K}

OutputsForTriple(K) ==
    {p \in 1..Len(outfile) : \E j \in LinesWithTriple(K) : outfile[p] = UrlOfLine(j)}

\* C1: when deduplicate_urls is done, for every dedup key (lowercased scheme,
\* lowercased host, parameter names) that occurs among the normalized lines the
\* output holds exactly one URL for that key, and it is the normalized form of
\* the first line with that key.
C1_OneUrlPerKeyFirstWins ==
    pc = "done" =>
        \A i \in NormalizedLines :
            LET K == TripleOfLine(i)
                first == Min(LinesWithTriple(K))
            IN /\ Cardinality(OutputsForTriple(K)) = 1
               /\ \A p \in OutputsForTriple(K) : outfile[p] = UrlOfLine(first)

\* C4: every non-blank line is counted in the total and is then exactly one of
\* retained as unique, counted as a duplicate, or reported with a diagnostic:
\* total = unique + duplicates + diagnostics.
C4_NoLineSilentlyDropped ==
    /\ total_urls = Cardinality(NonBlankLines)
    /\ total_urls = Len(unique_keys) + duplicate_urls + Len(stderr)

\* C5: normalization is idempotent: normalizing the URL normalize_url returned
\* gives the same URL and the same dedup key.
C5_NormalizeIdempotent ==
    result.ok => /\ normalize_url(result.url).ok
                 /\ normalize_url(result.url).url = result.url
                 /\ normalize_url(result.url).key = result.key

\* the line the last call of normalize_url was given
LastUrl == strip(infile[Max(NonBlankLines)])

\* the query of a URL string: what follows the first "?"
QueryOf(url) ==
    LET qm == Find(url, {"?"}, 1)
    IN IF qm = 0 THEN <<>> ELSE From(url, qm + 1)

InPairs == parse_qsl(urlparse(LastUrl).query)

OutPairs == parse_qsl(QueryOf(result.url))

AllFuzz == \A i \in 1..Len(OutPairs) : OutPairs[i].value = <<"FUZZ">>

\* C6 as stated: the normalized query holds as many pairs as the query of the
\* input, each with the value FUZZ, sorted by name.
C6_EveryOccurrenceKept ==
    (NonBlankLines # {} /\ result.ok) =>
        /\ Len(OutPairs) = Len(InPairs)
        /\ AllFuzz
        /\ \A i, j \in 1..Len(OutPairs) :
               i < j => ~StrLess(OutPairs[j].name, OutPairs[i].name)

\* C6 amended: the normalized query holds one pair per distinct name of the
\* input query, each with the value FUZZ, in strictly ascending order of name.
C6_OnePairPerName ==
    (NonBlankLines # {} /\ result.ok) =>
        /\ {OutPairs[i].name : i \in 1..Len(OutPairs)}
               = {InPairs[i].name : i \in 1..Len(InPairs)}
        /\ AllFuzz
        /\ \A i, j \in 1..Len(OutPairs) :
               i < j => StrLess(OutPairs[i].name, OutPairs[j].name)

\* a query with a repeated name and a second name out of order was normalized
C6_Witness ==
    /\ NonBlankLines # {}
    /\ result.ok
    /\ Len(OutPairs) >= 2
    /\ Len(InPairs) > Len(OutPairs)
    /\ StrLess(InPairs[Len(InPairs)].name, InPairs[1].name)

\* the first line that was retained under a key
FirstLineOfKey(k) == Min({i \in NonBlankLines : KeyOfLine(i) = k})

\* C7: the output is in first-seen order: the URL of key k1 precedes the URL of
\* key k2 iff the first line with key k1 precedes the first line with key k2, and
\* each position holds the normalized form of that first line.
C7_FirstSeenOrder ==
    pc = "done" =>
        /\ Len(outfile) = Len(unique_keys)
        /\ \A p \in 1..Len(outfile) :
               outfile[p] = UrlOfLine(FirstLineOfKey(unique_keys[p].key))
        /\ \A p, q \in 1..Len(outfile) :
               (p < q) <=> (FirstLineOfKey(unique_keys[p].key)
                                < FirstLineOfKey(unique_keys[q].key))

\* two keys were retained and a later line repeated the first of them
C7_Witness ==
    /\ pc = "done"
    /\ Len(outfile) >= 2
    /\ \E i, j, k \in NonBlankLines :
           /\ i < j /\ j < k
           /\ KeyOfLine(i) = unique_keys[1].key
           /\ KeyOfLine(j) = unique_keys[2].key
           /\ KeyOfLine(k) = unique_keys[1].key
           /\ UrlOfLine(k) # UrlOfLine(i)

----------------------------------------------------------------------------
(* scope_check.py *)

NoDomain == <<>>

\* the length of a leading "http://" or "https://", 0 if there is none
http_prefix(s) ==
    IF /\ Len(s) >= 4
       /\ s[1] \in {"http", "https"}
       /\ s[2] = ":" /\ s[3] = "/" /\ s[4] = "/"
    THEN 4 ELSE 0

\* the length of a leading "www.", 0 if there is none
www_prefix(s) == IF StartsWith(s, <<"www", ".">>) THEN 2 ELSE 0

\* the longest prefix that matches [^/:]*
host_run(s) ==
    LET d == Find(s, {"/", ":"}, 1)
    IN IF d = 0 THEN s ELSE Upto(s, d - 1)

\* re.search(r'^(?:https?://)?(?:www\.)?([^/:]+)', url): the optional groups are
\* greedy and given back in turn when the capture group finds nothing
extract_domain(url) ==
    LET a == From(url, http_prefix(url) + 1)
        tries == <<host_run(From(a, www_prefix(a) + 1)),
                   host_run(a),
                   host_run(From(url, www_prefix(url) + 1)),
                   host_run(url)>>
        hits == {i \in 1..Len(tries) : tries[i] # <<>>}
    IN IF hits = {} THEN NoDomain ELSE tries[Min(hits)]

\* line.rstrip('/')
RECURSIVE rstrip_slash(_)
rstrip_slash(s) ==
    IF s # <<>> /\ s[Len(s)] = "/" THEN rstrip_slash(Upto(s, Len(s) - 1)) ELSE s

RECURSIVE read_domains_from_file(_)
read_domains_from_file(lines) ==
    IF lines = <<>> THEN <<>>
    ELSE LET line == strip(Head(lines))
             l1 == From(line, http_prefix(line) + 1)
             l2 == rstrip_slash(l1)
             l3 == From(l2, www_prefix(l2) + 1)
         IN (IF line = <<>> THEN <<>> ELSE <<l3>>)
            \o read_domains_from_file(Tail(lines))

\* a mutant of domain_in_scope: subdomains match whatever the flag says
domain_in_scope_any_subdomain(domain, scope_domain, wildcards) ==
    domain = scope_domain \/ EndsWith(domain, <<".">> \o scope_domain)

domain_in_scope(domain, scope_domain, wildcards) ==
    IF wildcards
    THEN domain = scope_domain \/ EndsWith(domain, <<".">> \o scope_domain)
    ELSE \/ domain = scope_domain
         \/ domain = <<"www", ".">> \o scope_domain
         \/ <<"www", ".">> \o domain = scope_domain

RECURSIVE is_in_scope(_, _, _)
is_in_scope(domain, domains, wildcards) ==
    IF domains = <<>> THEN FALSE
    ELSE IF domain_in_scope(domain, Head(domains), wildcards) THEN TRUE
    ELSE is_in_scope(domain, Tail(domains), wildcards)

\* any(d == domain or domain.endswith(f".{d}") for d in out_of_scope_list)
is_out_of_scope(domain, oos) ==
    \E i \in 1..Len(oos) : oos[i] = domain \/ EndsWith(domain, <<".">> \o oos[i])

\* a mutant of process_urls_verdict: the scope list is asked first
process_urls_verdict_scope_first(url, oos, domains, wildcards) ==
    LET domain == extract_domain(url)
    IN IF domain = NoDomain THEN "out"
       ELSE IF is_in_scope(domain, domains, wildcards) THEN "in"
       ELSE "out"

\* a mutant of process_urls_verdict: a URL without a domain is let in
process_urls_verdict_fail_open(url, oos, domains, wildcards) ==
    LET domain == extract_domain(url)
    IN IF domain = NoDomain THEN "in"
       ELSE IF is_out_of_scope(domain, oos) THEN "out"
       ELSE IF is_in_scope(domain, domains, wildcards) THEN "in"
       ELSE "out"

\* the body of "for url in urls": which list the URL is appended to
process_urls_verdict(url, oos, domains, wildcards) ==
    LET domain == extract_domain(url)
    IN IF domain = NoDomain THEN "out"
       ELSE IF is_out_of_scope(domain, oos) THEN "out"
       ELSE IF is_in_scope(domain, domains, wildcards) THEN "in"
       ELSE "out"

\* the scope files and out-of-scope files a run may be given
ScopeFile1 == <<<<"example", ".", "com">>>>
ScopeFile2 == <<<<"www", ".", "www", ".", "example", ".", "com">>>>
ScopeFile3 ==
    <<<<" ">>, <<"example", ".", "org">>,
      <<"https", ":", "/", "/", "www", ".", "example", ".", "com", "/">>>>

ScopeFiles == {ScopeFile1, ScopeFile2, ScopeFile3}

OosFile1 == <<<<"dev", ".", "example", ".", "com">>>>
OosFile2 == <<<<"http", ":", "/", "/", "example", ".", "com", "/">>>>

OosFiles == {OosFile1, OosFile2}

\* the lines a URL file may hold
ScopeUrl1 == <<"https", ":", "/", "/", "www", ".", "example", ".", "com", "/", "x">>
ScopeUrl2 == <<"https", ":", "/", "/", "www", ".", "Example", ".", "com", "/", "x">>
ScopeUrl3 == <<"https", ":", "/", "/", "sub", ".", "example", ".", "com", "/", "x">>
ScopeUrl4 == <<"https", ":", "/", "/", "dev", ".", "example", ".", "com", ":", "8080", "/", "login">>
ScopeUrl5 == <<"http", ":", "/", "/", "www", ".", "www", ".", "example", ".", "com">>
ScopeUrl6 == <<"/", "x">>
ScopeUrl7 == <<" ">>

UrlFileLines ==
    {ScopeUrl1, ScopeUrl2, ScopeUrl3, ScopeUrl4, ScopeUrl5, ScopeUrl6, ScopeUrl7}

\* the prompts are answered and the domain files are read
process_urls_setup(wildcards, has_oos_file, oos_file, scope_file) ==
    /\ spc = "prompt"
    /\ spc' = "classify"
    /\ allow_wildcards' = wildcards
    /\ out_of_scope_list' = IF has_oos_file THEN read_domains_from_file(oos_file)
                            ELSE <<>>
    /\ scope_domains' = read_domains_from_file(scope_file)
    /\ UNCHANGED <<url_file, in_scope_urls, out_of_scope_urls, dedupVars, burpVars>>

\* one line of the URL file: blank lines are left out, the others classified
process_urls_classify(line) ==
    /\ spc = "classify"
    /\ Len(url_file) < MaxUrls
    /\ url_file' = Append(url_file, line)
    /\ LET url == strip(line)
           v == process_urls_verdict(url, out_of_scope_list, scope_domains,
                                     allow_wildcards)
       IN IF url = <<>> THEN UNCHANGED <<in_scope_urls, out_of_scope_urls>>
          ELSE /\ in_scope_urls' = IF v = "in" THEN Append(in_scope_urls, url)
                                   ELSE in_scope_urls
               /\ out_of_scope_urls' = IF v = "out" THEN Append(out_of_scope_urls, url)
                                       ELSE out_of_scope_urls
    /\ UNCHANGED <<spc, allow_wildcards, out_of_scope_list, scope_domains,
                   dedupVars, burpVars>>

\* the classification loop is over and the two lists are printed
process_urls_output ==
    /\ spc = "classify"
    /\ spc' = "done"
    /\ UNCHANGED <<allow_wildcards, out_of_scope_list, scope_domains, url_file,
                   in_scope_urls, out_of_scope_urls, dedupVars, burpVars>>

NextScope ==
    \/ \E w \in BOOLEAN, h \in BOOLEAN, o \in OosFiles, f \in ScopeFiles :
           process_urls_setup(w, h, o, f)
    \/ \E line \in UrlFileLines : process_urls_classify(line)
    \/ process_urls_output

SpecScope == Init /\ [][NextScope]_vars

----------------------------------------------------------------------------
(* Properties of scope_check.py *)

\* urls = [line.strip() for line in uf if line.strip()]
RECURSIVE read_urls(_)
read_urls(lines) ==
    IF lines = <<>> THEN <<>>
    ELSE (IF strip(Head(lines)) = <<>> THEN <<>> ELSE <<strip(Head(lines))>>)
         \o read_urls(Tail(lines))

Urls == read_urls(url_file)

Dot(p) == <<".">> \o p

Www(p) == <<"www", ".">> \o p

\* the domain equals an out-of-scope pattern or is a dot-subdomain of one
Excluded(d) ==
    \E p \in Range(out_of_scope_list) : d = p \/ EndsWith(d, Dot(p))

\* the in-scope rule of the claim, for either value of the wildcard flag
MatchesScope(d) ==
    IF allow_wildcards
    THEN \E p \in Range(scope_domains) : d = p \/ EndsWith(d, Dot(p))
    ELSE \E p \in Range(scope_domains) : d = p \/ d = Www(p) \/ Www(d) = p

\* C2: a URL whose domain equals an out-of-scope pattern or ends with "." + an
\* out-of-scope pattern is appended to the out-of-scope list and never to the
\* in-scope list, for every scope list and both values of the wildcard flag.
C2_OutOfScopeWins ==
    \A i \in 1..Len(Urls) :
        LET d == extract_domain(Urls[i])
        IN (d # NoDomain /\ Excluded(d)) =>
               /\ Urls[i] \in Range(out_of_scope_urls)
               /\ Urls[i] \notin Range(in_scope_urls)

\* an excluded URL that also matches a scope pattern was classified
C2_Witness ==
    \E i \in 1..Len(Urls) :
        LET d == extract_domain(Urls[i])
        IN /\ d # NoDomain
           /\ Excluded(d)
           /\ MatchesScope(d)
           /\ Urls[i] \in Range(out_of_scope_urls)

SubExampleCom == <<"sub", ".", "example", ".", "com">>

ExampleCom == <<"example", ".", "com">>

\* C3: a domain that is not excluded is in scope iff some scope pattern matches
\* it: equal or dot-subdomain with wildcards, equal or www-variant without; so
\* sub.example.com against the single pattern example.com is in scope exactly
\* when wildcards are enabled.
C3_InScopeRule ==
    \A i \in 1..Len(Urls) :
        LET d == extract_domain(Urls[i])
        IN (d # NoDomain /\ ~Excluded(d)) =>
               /\ (Urls[i] \in Range(in_scope_urls)) <=> MatchesScope(d)
               /\ (Urls[i] \in Range(out_of_scope_urls)) <=> ~MatchesScope(d)
               /\ (d = SubExampleCom /\ scope_domains = <<ExampleCom>>) =>
                      ((Urls[i] \in Range(in_scope_urls)) <=> allow_wildcards)

\* sub.example.com was classified against the single pattern example.com with
\* wildcards disabled and went to the out-of-scope list
C3_Witness ==
    /\ ~allow_wildcards
    /\ scope_domains = <<ExampleCom>>
    /\ \E i \in 1..Len(Urls) :
           /\ extract_domain(Urls[i]) = SubExampleCom
           /\ ~Excluded(SubExampleCom)
           /\ Urls[i] \in Range(out_of_scope_urls)

\* the elements of s at the indices in I, in order
RECURSIVE Restrict(_, _, _)
Restrict(s, I, i) ==
    IF i > Len(s) THEN <<>>
    ELSE (IF i \in I THEN <<s[i]>> ELSE <<>>) \o Restrict(s, I, i + 1)

\* C8: the two lists partition the non-blank input URLs: each occurrence is in
\* exactly one list, each list keeps the input order, no URL is in both lists,
\* and a URL without an extractable domain is in the out-of-scope list.
C8_Partition ==
    /\ \E I \in SUBSET (1..Len(Urls)) :
           /\ in_scope_urls = Restrict(Urls, I, 1)
           /\ out_of_scope_urls = Restrict(Urls, (1..Len(Urls)) \ I, 1)
    /\ Range(in_scope_urls) \cap Range(out_of_scope_urls) = {}
    /\ \A i \in 1..Len(Urls) :
           extract_domain(Urls[i]) = NoDomain =>
               Urls[i] \in Range(out_of_scope_urls)

\* both lists are filled, one of them with two URLs, and a URL without a domain
\* was classified
C8_Witness ==
    /\ spc = "done"
    /\ in_scope_urls # <<>>
    /\ Len(out_of_scope_urls) >= 2
    /\ out_of_scope_urls[1] # out_of_scope_urls[2]
    /\ \E i \in 1..Len(Urls) : extract_domain(Urls[i]) = NoDomain

\* where the path of a URL starts: after the host that follows "scheme://"
PathStart(u) ==
    LET skip == IF /\ Len(u) >= 4
                   /\ LowerTok(u[1]) \in {"http", "https"}
                   /\ u[2] = ":" /\ u[3] = "/" /\ u[4] = "/"
                THEN 5 ELSE 1
        slash == Find(u, {"/"}, skip)
    IN IF slash = 0 THEN Len(u) + 1 ELSE slash

DifferOnlyInHostCase(u, v) ==
    /\ PathStart(u) = PathStart(v)
    /\ lower(Upto(u, PathStart(u) - 1)) = lower(Upto(v, PathStart(v) - 1))
    /\ From(u, PathStart(u)) = From(v, PathStart(v))

\* C9: two URLs that differ only in the letter case of the scheme and host get
\* the same verdict under the same scope list, out-of-scope list and flag.
C9_HostCaseInsensitive ==
    \A i, j \in 1..Len(Urls) :
        DifferOnlyInHostCase(Urls[i], Urls[j]) =>
            ((Urls[i] \in Range(in_scope_urls)) <=> (Urls[j] \in Range(in_scope_urls)))

----------------------------------------------------------------------------
(* burpJS.py : parse_input_file *)

FoundTok == "[+] Valid URL found: "

DigitTok == {"1", "2"}

NoMatch == <<>>

\* re.match(r"\[\+\] Valid URL found: (https?://[^\s]+)", line): group 1
base_url_match(line) ==
    IF /\ Len(line) >= 6
       /\ line[1] = FoundTok
       /\ http_prefix(Tail(line)) > 0
       /\ line[6] \notin Whitespace
    THEN LET ws == Find(line, Whitespace, 6)
         IN IF ws = 0 THEN Tail(line) ELSE SubSeq(line, 2, ws - 1)
    ELSE NoMatch

\* the index of the first token at or after i that is no whitespace
RECURSIVE skip_ws(_, _)
skip_ws(line, i) ==
    IF i <= Len(line) /\ line[i] \in Whitespace THEN skip_ws(line, i + 1) ELSE i

\* re.match(r"\d+\s+-\s+(.+)", line): group 1
endpoint_match(line) ==
    LET dash == skip_ws(line, 2)
        rest == skip_ws(line, dash + 1)
    IN IF /\ line # <<>>
          /\ line[1] \in DigitTok
          /\ dash > 2
          /\ dash <= Len(line)
          /\ line[dash] = "-"
          /\ rest > dash + 1
          /\ rest <= Len(line)
       THEN From(line, rest)
       ELSE NoMatch

\* results[current_base_url] = []
results_reset(d, base) ==
    LET I == {i \in 1..Len(d) : d[i].base = base}
    IN IF I = {} THEN Append(d, [base |-> base, endpoints |-> <<>>])
       ELSE [d EXCEPT ![Min(I)].endpoints = <<>>]

\* results[current_base_url].append(endpoint)
results_append(d, base, endpoint) ==
    [i \in 1..Len(d) |->
        IF d[i].base = base THEN [d[i] EXCEPT !.endpoints = Append(@, endpoint)]
        ELSE d[i]]

\* the lines a scan log may hold
LogLine1 == <<FoundTok, "http", ":", "/", "/", "a", "/", "x.js">>
LogLine2 == <<FoundTok, "https", ":", "/", "/", "b", "/", "y.js", " ", "(200)">>
LogLine3 == <<"1", " ", "-", " ", "/", "p">>
LogLine4 == <<" ", "2", " ", " ", "-", " ", "q.php", " ">>
LogLine5 == <<"[-] nothing found">>
LogLine6 == <<"1", "-", " ", "/", "r">>

LogLines == {LogLine1, LogLine2, LogLine3, LogLine4, LogLine5, LogLine6}

\* one iteration of "for line in file"
parse_input_file_line(raw) ==
    /\ bpc = "loop"
    /\ Len(input_file) < MaxLog
    /\ input_file' = Append(input_file, raw)
    /\ LET line == strip(raw)
           base == base_url_match(line)
           endpoint == endpoint_match(line)
       IN IF base # NoMatch
          THEN /\ current_base_url' = base
               /\ results' = results_reset(results, base)
          ELSE IF endpoint # NoMatch /\ current_base_url # <<>>
          THEN /\ results' = results_append(results, current_base_url, endpoint)
               /\ UNCHANGED current_base_url
          ELSE UNCHANGED <<results, current_base_url>>
    /\ UNCHANGED <<bpc, dedupVars, scopeVars>>

\* return results
parse_input_file_return ==
    /\ bpc = "loop"
    /\ bpc' = "done"
    /\ UNCHANGED <<input_file, results, current_base_url, dedupVars, scopeVars>>

NextBurp ==
    \/ \E raw \in LogLines : parse_input_file_line(raw)
    \/ parse_input_file_return

SpecBurp == Init /\ [][NextBurp]_vars

----------------------------------------------------------------------------
(* Properties of burpJS.py *)

IsBaseLine(i) == base_url_match(strip(input_file[i])) # NoMatch

IsEndpointLine(i) == ~IsBaseLine(i) /\ endpoint_match(strip(input_file[i])) # NoMatch

BaseLinesBefore(i) == {j \in 1..(i - 1) : IsBaseLine(j)}

\* the base URL announced most recently before line i
BaseAt(i) == base_url_match(strip(input_file[Max(BaseLinesBefore(i))]))

\* the endpoints of the lines from i on that stand under the base URL b
RECURSIVE EndpointsUnder(_, _)
EndpointsUnder(b, i) ==
    IF i > Len(input_file) THEN <<>>
    ELSE (IF IsEndpointLine(i) /\ BaseLinesBefore(i) # {} /\ BaseAt(i) = b
          THEN <<endpoint_match(strip(input_file[i]))>> ELSE <<>>)
         \o EndpointsUnder(b, i + 1)

\* C10: every endpoint line that follows a base-URL line is in the returned
\* mapping under the most recently announced base URL, in log order, also when
\* a base URL is announced more than once; earlier endpoint lines are ignored.
C10_NoEndpointLost ==
    bpc = "done" =>
        /\ \A i \in 1..Len(input_file) :
               IsBaseLine(i) =>
                   \E k \in 1..Len(results) :
                       /\ results[k].base = base_url_match(strip(input_file[i]))
                       /\ results[k].endpoints = EndpointsUnder(results[k].base, 1)
        /\ \A k \in 1..Len(results) :
               \E i \in 1..Len(input_file) :
                   /\ IsBaseLine(i)
                   /\ results[k].base = base_url_match(strip(input_file[i]))

====
